---- MODULE Spec2Model ----
(***************************************************************************)
(* The ROM manager of src/src/rom.rs: the built-in rom set registry and    *)
(* rom definition catalog of RomManager::new, and try_load_from_dir, which *)
(* scans a directory, marks the rom definitions found, collects the        *)
(* complete rom sets, selects the active one and loads its images and      *)
(* checkpoints.  The file system is the environment: a directory of a few  *)
(* files whose contents change between calls.                              *)
(***************************************************************************)
EXTENDS Integers, Sequences, FiniteSets, TLC

\* The file names of the rom directory.
FileNames == {"a.bin", "b.bin"}
\* Number of try_load_from_dir calls on one manager (rom_sets_complete
\* grows with every call).
MaxCalls == 2
\* Number of copy_into_memory / install_patches calls.
MaxBusCalls == 2

BIOS_READ_CYCLE_COST == 4

\* Option<T>: None is the empty sequence, Some(x) the one-element sequence.
None == << >>
Some(x) == << x >>

MachineTypes == {"IBM_PC_5150", "IBM_XT_5160"}

(***************************************************************************)
(* RomManager::new: the registry (rom_sets) and the catalog (rom_defs).    *)
(***************************************************************************)
\* PathBuf::new()
EmptyPath == << >>

NewRomSets ==
  << [machine_type |-> "IBM_PC_5150", priority |-> 0, is_complete |-> FALSE,
      roms |-> << "6338a9808445de12109a2389b71ee2eb",
                  "2ad31da203a49b504fad3a34af0c719f",
                  "eb28f0e8d3f641f2b58a3677b3b998cc" >>],
     [machine_type |-> "IBM_PC_5150", priority |-> 1, is_complete |-> FALSE,
      roms |-> << "6a1ed4e3f500d785a01ff4d3e000d79c",
                  "2ad31da203a49b504fad3a34af0c719f",
                  "eb28f0e8d3f641f2b58a3677b3b998cc" >>],
     [machine_type |-> "IBM_PC_5150", priority |-> 2, is_complete |-> FALSE,
      roms |-> << "f453eb2df6daf21ec644d33663d85434",
                  "2ad31da203a49b504fad3a34af0c719f",
                  "eb28f0e8d3f641f2b58a3677b3b998cc" >>],
     [machine_type |-> "IBM_PC_5150", priority |-> 10, is_complete |-> FALSE,
      roms |-> << "3a0eacac07f1020b95ce06043982dfd1" >>],
     [machine_type |-> "IBM_XT_5160", priority |-> 4, is_complete |-> FALSE,
      roms |-> << "fd9ff9cbe0a8f154746ccb0a33f6d3e7",
                  "f051b4bbc3b60c3a14df94a0e4ee720f" >>],
     [machine_type |-> "IBM_XT_5160", priority |-> 5, is_complete |-> FALSE,
      roms |-> << "9696472098999c02217bf922786c1f4a",
                  "df9f29de490d7f269a6405df1fed69b7" >>] >>

\* Checkpoints of the 5150 BIOS v1 04/24/81 (addresses in decimal).
Bios5150v1Checkpoints ==
    1040410 :> "RAM Check Routine" @@
    1040475 :> "8088 Processor Test" @@
    1040560 :> "ROS Checksum" @@
    1040602 :> "8237 DMA Initialization Test" @@
    1040663 :> "DMA Controller test" @@
    1040728 :> "Base 16K Read/Write Test" @@
    1040949 :> "8249 Interrupt Controller Test" @@
    1041029 :> "8253 Timer Checkout" @@
    1041211 :> "ROS Checksum II" @@
    1041234 :> "Initialize CRTC Controller" @@
    1041327 :> "Video Line Test" @@
    1041344 :> "CRT Interface Lines Test" @@
    1041968 :> "Error Beep" @@
    1042022 :> "Beep" @@
    1042056 :> "Keyboard Reset" @@
    1042098 :> "Blink LED Interrupt" @@
    1042122 :> "Print Message" @@
    1042162 :> "Bootstrap Loader" @@
    1044275 :> "FDC Wait for Interrupt" @@
    1044295 :> "FDC Interrupt Timeout" @@
    1007616 :> "ROM BASIC"

\* Patches of the 5150 BIOS v1 04/24/81: 0xFE130 <- EB 03, 0xFE0D8 <- 74 D5.
Bios5150v1Patches ==
  << [desc |-> "Patch DMA check failure: JZ->JNP",
      address |-> 1040688, bytes |-> << 235, 3 >>],
     [desc |-> "Patch ROM checksum failure: JNZ-JZ",
      address |-> 1040600, bytes |-> << 116, 213 >>] >>

RomDescriptor(rt, mt, opt, prio, addr, sz, pt, cp) ==
  [rom_type |-> rt, present |-> FALSE, filename |-> EmptyPath,
   machine_type |-> mt, optional |-> opt, priority |-> prio,
   address |-> addr, size |-> sz, cycle_cost |-> BIOS_READ_CYCLE_COST,
   patches |-> pt, checkpoints |-> cp]

\* Addresses: 0xFE000 = 1040384, 0xF6000 = 1007616, 0xF8000 = 1015808,
\* 0xF0000 = 983040.
NewRomDefs ==
  "6338a9808445de12109a2389b71ee2eb" :>
     RomDescriptor("BIOS", "IBM_PC_5150", FALSE, 0, 1040384, 8192,
                   Bios5150v1Patches, Bios5150v1Checkpoints) @@
  "6a1ed4e3f500d785a01ff4d3e000d79c" :>
     RomDescriptor("BIOS", "IBM_PC_5150", FALSE, 2, 1040384, 8192, << >>, << >>) @@
  "f453eb2df6daf21ec644d33663d85434" :>
     RomDescriptor("BIOS", "IBM_PC_5150", FALSE, 3, 1040384, 8192, << >>, << >>) @@
  "2ad31da203a49b504fad3a34af0c719f" :>
     RomDescriptor("BASIC", "IBM_PC_5150", TRUE, 1, 1007616, 32768, << >>, << >>) @@
  "eb28f0e8d3f641f2b58a3677b3b998cc" :>
     RomDescriptor("BASIC", "IBM_PC_5150", TRUE, 2, 1007616, 32768, << >>, << >>) @@
  "fd9ff9cbe0a8f154746ccb0a33f6d3e7" :>
     RomDescriptor("BIOS", "IBM_XT_5160", FALSE, 1, 1015808, 32768, << >>, << >>) @@
  "f051b4bbc3b60c3a14df94a0e4ee720f" :>
     RomDescriptor("BIOS", "IBM_XT_5160", FALSE, 1, 983040, 32768, << >>, << >>) @@
  "9696472098999c02217bf922786c1f4a" :>
     RomDescriptor("BIOS", "IBM_XT_5160", FALSE, 1, 1015808, 32768, << >>, << >>) @@
  "df9f29de490d7f269a6405df1fed69b7" :>
     RomDescriptor("BIOS", "IBM_XT_5160", FALSE, 1, 983040, 32768, << >>, << >>) @@
  "3a0eacac07f1020b95ce06043982dfd1" :>
     RomDescriptor("BIOS", "IBM_PC_5150", FALSE, 10, 1040384, 32768, << >>, << >>)

(***************************************************************************)
(* The environment: a rom directory of a few file names.  A file is        *)
(* absent, unreadable (fs::read fails) or holds bytes, of which the model  *)
(* keeps what the program observes: the md5 digest and the length.         *)
(***************************************************************************)
RomDir == "roms"
MissingDir == "missing"
DirNames == {RomDir, MissingDir}
Paths == {<< RomDir, f >> : f \in FileNames}

Absent == [kind |-> "absent"]
Unreadable == [kind |-> "unreadable"]
Bytes(d, n) == [kind |-> "bytes", digest |-> d, len |-> n]
\* The image file of a catalog entry, and a file no catalog entry matches
\* (the empty file).
ImageFile(d) == Bytes(d, NewRomDefs[d].size)
OtherFile == Bytes("d41d8cd98f00b204e9800998ecf8427e", 0)
\* The catalog entries whose image files occur in the directory: two 5150
\* BIOS versions, the two BASIC versions and one 5160 BIOS pair.
EnvImages ==
  { "6338a9808445de12109a2389b71ee2eb", "f453eb2df6daf21ec644d33663d85434",
    "2ad31da203a49b504fad3a34af0c719f", "eb28f0e8d3f641f2b58a3677b3b998cc",
    "9696472098999c02217bf922786c1f4a", "df9f29de490d7f269a6405df1fed69b7" }
FileStates ==
  {Absent, Unreadable, OtherFile} \cup {ImageFile(d) : d \in EnvImages}

VARIABLES
  fs,                  \* the rom directory: path -> file state
  machine_type,
  have_basic,
  rom_sets,
  rom_sets_complete,
  rom_set_active,
  checkpoints_active,
  rom_defs,
  rom_images,
  path_arg,            \* the path given to the last try_load_from_dir call
  result,              \* what the last try_load_from_dir call returned
  calls,               \* number of try_load_from_dir calls so far
  bus,                 \* the calls made on the BusInterface, in order
  bus_result,          \* what the last copy_into_memory / install_patches returned
  bus_calls,           \* number of copy_into_memory / install_patches calls so far
  peer,                \* a second RomManager, with its last result and its calls
  updates,             \* Mouse: the queue of MouseUpdate::Update(byte1, byte2, byte3)
  rts,                 \* Mouse: the RTS level seen by the last run
  rts_low_timer,       \* Mouse: microseconds counted with RTS low
  dtr,                 \* Mouse: never written after new
  serial_queue,        \* the bytes queued to the serial port MOUSE_PORT, in order
  update_calls,        \* number of Mouse::update calls so far
  update_arg,          \* the arguments of the last Mouse::update call
  run_log,             \* the (rts, us) given to each Mouse::run call so far
  accumulated_us,      \* Counter: microseconds not yet turned into frames
  frame_count,         \* Counter: frames emulated so far
  elapsed_us,          \* the time the last event-loop callback measured
  callbacks            \* number of event-loop callbacks so far

manager == << machine_type, have_basic, rom_sets, rom_sets_complete,
              rom_set_active, checkpoints_active, rom_defs, rom_images >>
mouse == << updates, rts, rts_low_timer, dtr, serial_queue, update_calls,
           update_arg, run_log >>
counter == << accumulated_us, frame_count, elapsed_us, callbacks >>
vars == << fs, manager, path_arg, result, calls, bus, bus_result, bus_calls,
          peer, mouse, counter >>

\* fs::read_dir(path): the entries of the directory, or an error.
read_dir(fsys, path) ==
  IF path = RomDir
    THEN Some({p \in DOMAIN fsys : fsys[p].kind # "absent"})
    ELSE None

\* std::fs::read(path): the bytes of the file, or an error.
fs_read(fsys, path) ==
  IF path \in DOMAIN fsys /\ fsys[path].kind = "bytes"
    THEN Some(fsys[path])
    ELSE None

\* format!("{:x}", md5::compute(file_vec))
md5_compute(file_vec) == file_vec.digest

\* The orders in which the directory iterator can yield the entries.
Orders(entries) ==
  {o \in [1..Cardinality(entries) -> entries] :
     \A i, j \in DOMAIN o : i # j => o[i] # o[j]}

\* Faulty variant: the key of BASIC C1.10 is not found in the catalog.
get_romdesc_but_basic(defs, key) ==
  IF key \in DOMAIN defs \ {"eb28f0e8d3f641f2b58a3677b3b998cc"}
    THEN Some(defs[key]) ELSE None

get_romdesc(defs, key) ==
  IF key \in DOMAIN defs THEN Some(defs[key]) ELSE None

(***************************************************************************)
(* try_load_from_dir, step by step.                                        *)
(***************************************************************************)
\* One directory entry of the scan loop.
ScanEntry(defs, mt, fsys, entry) ==
  LET file_vec == fs_read(fsys, entry) IN
  IF file_vec = None THEN defs
  ELSE LET file_digest_str == md5_compute(file_vec[1])
           rom == get_romdesc(defs, file_digest_str) IN
       IF rom # None /\ rom[1].machine_type = mt
         THEN [defs EXCEPT ![file_digest_str].present = TRUE,
                           ![file_digest_str].filename = entry]
         ELSE defs

RECURSIVE ScanDir(_, _, _, _, _)
ScanDir(defs, mt, fsys, order, i) ==
  IF i > Len(order) THEN defs
  ELSE ScanDir(ScanEntry(defs, mt, fsys, order[i]), mt, fsys, order, i + 1)

\* A rom of the set is no key of rom_defs: panic!("Invalid rom reference").
InvalidRomReference(set, defs) ==
  \E k \in DOMAIN set.roms : get_romdesc(defs, set.roms[k]) = None

\* Faulty variant: an absent optional rom counts as missing too.
AnyRomMissing(set, defs) ==
  \E k \in DOMAIN set.roms :
     LET romdesc == get_romdesc(defs, set.roms[k]) IN
     romdesc # None /\ ~romdesc[1].present

\* Faulty variant: required_rom_missing is never set.
RequiredRomNeverMissing(set, defs) == FALSE

RequiredRomMissing(set, defs) ==
  \E k \in DOMAIN set.roms :
     LET romdesc == get_romdesc(defs, set.roms[k]) IN
     romdesc # None /\ ~romdesc[1].optional /\ ~romdesc[1].present

\* The loop over the rom sets of this machine type: marks the complete ones
\* and pushes a clone of each on rom_sets_complete.
RECURSIVE MarkComplete(_, _, _, _, _)
MarkComplete(sets, complete, defs, mt, i) ==
  IF i > Len(sets)
    THEN [rom_sets |-> sets, rom_sets_complete |-> complete, panicked |-> FALSE]
  ELSE IF sets[i].machine_type # mt
    THEN MarkComplete(sets, complete, defs, mt, i + 1)
  ELSE IF InvalidRomReference(sets[i], defs)
    THEN [rom_sets |-> sets, rom_sets_complete |-> complete, panicked |-> TRUE]
  ELSE IF RequiredRomMissing(sets[i], defs)
    THEN MarkComplete(sets, complete, defs, mt, i + 1)
  ELSE LET set == [sets[i] EXCEPT !.is_complete = TRUE] IN
       MarkComplete([sets EXCEPT ![i] = set], Append(complete, set),
                    defs, mt, i + 1)

\* sort_by(|a,b| b.priority.cmp(&a.priority)): stable, descending priority.
InsertByPriority(sorted, set) ==
  LET n == Cardinality({k \in DOMAIN sorted : sorted[k].priority >= set.priority})
  IN  SubSeq(sorted, 1, n) \o << set >> \o SubSeq(sorted, n + 1, Len(sorted))

RECURSIVE SortFrom(_, _, _)
SortFrom(sorted, list, i) ==
  IF i > Len(list) THEN sorted
  ELSE SortFrom(InsertByPriority(sorted, list[i]), list, i + 1)

\* Faulty variant: the comparator is reversed (ascending priority).
InsertByPriorityAscending(sorted, set) ==
  LET n == Cardinality({k \in DOMAIN sorted : sorted[k].priority <= set.priority})
  IN  SubSeq(sorted, 1, n) \o << set >> \o SubSeq(sorted, n + 1, Len(sorted))

RECURSIVE SortAscendingFrom(_, _, _)
SortAscendingFrom(sorted, list, i) ==
  IF i > Len(list) THEN sorted
  ELSE SortAscendingFrom(InsertByPriorityAscending(sorted, list[i]), list, i + 1)

SortByPriorityAscending(list) == SortAscendingFrom(<< >>, list, 1)

SortByPriority(list) == SortFrom(<< >>, list, 1)

\* Faulty variant: the filter keeps the required roms instead of the
\* present ones.
RetainRequired(roms, defs) ==
  SelectSeq(roms, LAMBDA rom : ~defs[rom].optional)

\* roms.retain(|rom| rom_desc.present)
RetainPresent(roms, defs) ==
  SelectSeq(roms, LAMBDA rom : defs[rom].present)

RECURSIVE HighestFrom(_, _, _, _)
HighestFrom(roms, defs, highest, i) ==
  IF i > Len(roms) THEN highest
  ELSE LET rom_desc == defs[roms[i]] IN
       HighestFrom(roms, defs,
                   IF rom_desc.rom_type = "BASIC" /\ rom_desc.priority > highest
                     THEN rom_desc.priority ELSE highest,
                   i + 1)

HighestPriorityBasic(roms, defs) == HighestFrom(roms, defs, 0, 1)

\* Faulty variant: the lower priority Basic images are not removed.
RetainAllBasic(roms, defs, highest_priority_basic) == roms

\* roms.retain(|rom| match rom_type { BASIC => priority == highest, _ => true })
RetainHighestBasic(roms, defs, highest_priority_basic) ==
  SelectSeq(roms, LAMBDA rom :
     IF defs[rom].rom_type = "BASIC"
       THEN defs[rom].priority = highest_priority_basic
       ELSE TRUE)

\* The image loop: stops at the first file that cannot be read, keeping the
\* images inserted so far.
RECURSIVE LoadImages(_, _, _, _, _)
LoadImages(roms, defs, images, fsys, i) ==
  IF i > Len(roms) THEN [ok |-> TRUE, rom_images |-> images]
  ELSE LET file_vec == fs_read(fsys, defs[roms[i]].filename) IN
       IF file_vec = None THEN [ok |-> FALSE, rom_images |-> images]
       ELSE LoadImages(roms, defs, (roms[i] :> file_vec[1]) @@ images,
                       fsys, i + 1)

\* checkpoints_active.extend(cp_map.iter()) for each rom of the active set.
RECURSIVE LoadCheckpoints(_, _, _, _)
LoadCheckpoints(roms, defs, checkpoints, i) ==
  IF i > Len(roms) THEN checkpoints
  ELSE LoadCheckpoints(roms, defs, defs[roms[i]].checkpoints @@ checkpoints,
                       i + 1)

\* Faulty variant: the list of complete rom sets is cleared before the
\* directory is opened.
DirNotFoundClearsComplete(m) == [m EXCEPT !.rom_sets_complete = << >>]

\* The return at the directory error: nothing of the manager is touched.
DirNotFound(m) == m

\* Faulty variant: the active set is cleared when an image cannot be read.
FileNotFoundClearsActive(active, loaded) == None

\* The return at the read error of an image: the active set is not stored.
FileNotFound(active, loaded) == active

\* Mouse::new(), with an empty serial port queue.
MouseNew ==
  /\ updates = << >>
  /\ rts = FALSE
  /\ rts_low_timer = 0
  /\ dtr = FALSE
  /\ serial_queue = << >>
  /\ update_calls = 0
  /\ update_arg = None
  /\ run_log = << >>

\* Counter::new()
CounterNew ==
  /\ accumulated_us = 0
  /\ frame_count = 0
  /\ elapsed_us = 0
  /\ callbacks = 0

\* RomManager::new(machine_type), as a value: the fields of the manager, with
\* the result of its last try_load_from_dir and the number of its calls.
new(mt) ==
  [machine_type |-> mt, have_basic |-> FALSE, rom_sets |-> NewRomSets,
   rom_sets_complete |-> << >>, rom_set_active |-> None,
   checkpoints_active |-> << >>, rom_defs |-> NewRomDefs,
   rom_images |-> << >>, result |-> "none", calls |-> 0]

\* try_load_from_dir(&mut self, path), as a function of the manager it is
\* called on, of the file system and of the order of the directory entries.
try_load_from_dir(self, fsys, path, order) ==
  LET called == [self EXCEPT !.calls = @ + 1] IN
  IF read_dir(fsys, path) = None
    THEN LET m == DirNotFound(
                    [rom_sets |-> self.rom_sets,
                     rom_sets_complete |-> self.rom_sets_complete,
                     rom_set_active |-> self.rom_set_active,
                     checkpoints_active |-> self.checkpoints_active,
                     rom_defs |-> self.rom_defs,
                     rom_images |-> self.rom_images])
         IN  [called EXCEPT !.result = "DirNotFound",
                            !.rom_sets = m.rom_sets,
                            !.rom_sets_complete = m.rom_sets_complete,
                            !.rom_set_active = m.rom_set_active,
                            !.checkpoints_active = m.checkpoints_active,
                            !.rom_defs = m.rom_defs,
                            !.rom_images = m.rom_images]
  ELSE
    LET defs == ScanDir(self.rom_defs, self.machine_type, fsys, order, 1)
        marked == MarkComplete(self.rom_sets, self.rom_sets_complete, defs,
                               self.machine_type, 1)
        complete == SortByPriority(marked.rom_sets_complete)
        scanned == [called EXCEPT !.rom_defs = defs, !.rom_sets = marked.rom_sets]
    IN
    IF marked.panicked
      THEN [scanned EXCEPT !.result = "panic",
                           !.rom_sets_complete = marked.rom_sets_complete]
    ELSE IF Len(complete) = 0
      THEN [scanned EXCEPT !.result = "RomNotFoundForMachine",
                           !.rom_sets_complete = complete]
    ELSE
      LET present_roms == RetainPresent(complete[1].roms, defs)
          highest_priority_basic == HighestPriorityBasic(present_roms, defs)
          roms == RetainHighestBasic(present_roms, defs, highest_priority_basic)
          loaded == LoadImages(roms, defs, self.rom_images, fsys, 1)
      IN
      IF ~loaded.ok
        THEN [scanned EXCEPT !.result = "FileNotFound",
                             !.rom_sets_complete = complete,
                             !.rom_images = loaded.rom_images,
                             !.rom_set_active = FileNotFound(@, roms)]
        ELSE [scanned EXCEPT !.result = "Ok",
                             !.rom_sets_complete = complete,
                             !.rom_images = loaded.rom_images,
                             !.checkpoints_active =
                                LoadCheckpoints(roms, defs, @, 1),
                             !.rom_set_active =
                                Some([complete[1] EXCEPT !.roms = roms])]

\* Faulty variant: the catalog is one table shared by all managers.
SharedCatalog(own, written) == written

\* The catalog of a manager while another manager scans: rom_defs is a field
\* of each manager, built by new for that manager alone; a scan writes to
\* the rom_defs of self only.
OtherCatalog(own, written) == own

Init ==
  /\ fs \in [Paths -> FileStates]
  /\ machine_type \in MachineTypes
  /\ have_basic = FALSE
  /\ rom_sets = NewRomSets
  /\ rom_sets_complete = << >>
  /\ rom_set_active = None
  /\ checkpoints_active = << >>
  /\ rom_defs = NewRomDefs
  /\ rom_images = << >>
  /\ path_arg = None
  /\ result = "none"
  /\ calls = 0
  /\ bus = << >>
  /\ bus_result = "none"
  /\ bus_calls = 0
  /\ peer = new(machine_type)
  /\ MouseNew
  /\ CounterNew

TryLoadFromDir(path, order) ==
  /\ calls < MaxCalls
  /\ calls' = calls + 1
  /\ path_arg' = Some(path)
  /\ UNCHANGED << fs, machine_type, have_basic, bus, bus_result, bus_calls >>
  /\ IF read_dir(fs, path) = None
       THEN /\ result' = "DirNotFound"
            /\ LET m == DirNotFound(
                         [rom_sets |-> rom_sets,
                          rom_sets_complete |-> rom_sets_complete,
                          rom_set_active |-> rom_set_active,
                          checkpoints_active |-> checkpoints_active,
                          rom_defs |-> rom_defs,
                          rom_images |-> rom_images])
               IN  /\ rom_sets' = m.rom_sets
                   /\ rom_sets_complete' = m.rom_sets_complete
                   /\ rom_set_active' = m.rom_set_active
                   /\ checkpoints_active' = m.checkpoints_active
                   /\ rom_defs' = m.rom_defs
                   /\ rom_images' = m.rom_images
       ELSE
         LET defs == ScanDir(rom_defs, machine_type, fs, order, 1)
             marked == MarkComplete(rom_sets, rom_sets_complete, defs,
                                    machine_type, 1)
             complete == SortByPriority(marked.rom_sets_complete)
         IN
         /\ rom_defs' = defs
         /\ rom_sets' = marked.rom_sets
         /\ IF marked.panicked
              THEN /\ result' = "panic"
                   /\ rom_sets_complete' = marked.rom_sets_complete
                   /\ UNCHANGED << rom_set_active, checkpoints_active, rom_images >>
            ELSE IF Len(complete) = 0
              THEN /\ result' = "RomNotFoundForMachine"
                   /\ rom_sets_complete' = complete
                   /\ UNCHANGED << rom_set_active, checkpoints_active, rom_images >>
            ELSE
              LET present_roms == RetainPresent(complete[1].roms, defs)
                  highest_priority_basic == HighestPriorityBasic(present_roms, defs)
                  roms == RetainHighestBasic(present_roms, defs,
                                             highest_priority_basic)
                  loaded == LoadImages(roms, defs, rom_images, fs, 1)
              IN
              /\ rom_sets_complete' = complete
              /\ rom_images' = loaded.rom_images
              /\ IF ~loaded.ok
                   THEN /\ result' = "FileNotFound"
                        /\ rom_set_active' = FileNotFound(rom_set_active, roms)
                        /\ UNCHANGED checkpoints_active
                   ELSE /\ result' = "Ok"
                        /\ checkpoints_active' =
                             LoadCheckpoints(roms, defs, checkpoints_active, 1)
                        /\ rom_set_active' =
                             Some([complete[1] EXCEPT !.roms = roms])
  /\ peer' = [peer EXCEPT !.rom_defs = OtherCatalog(@, rom_defs')]
  /\ UNCHANGED << mouse, counter >>

\* The environment rewrites, removes or creates one file of the directory.
FsChange(p, file) ==
  /\ calls < MaxCalls
  /\ fs[p] # file
  /\ fs' = [fs EXCEPT ![p] = file]
  /\ UNCHANGED << manager, path_arg, result, calls, bus, bus_result, bus_calls,
                  peer, mouse, counter >>

Next ==
  \/ \E path \in DirNames :
       \E order \in (IF read_dir(fs, path) = None THEN {<< >>}
                     ELSE Orders(read_dir(fs, path)[1])) :
         TryLoadFromDir(path, order)
  \/ \E p \in Paths, file \in FileStates : FsChange(p, file)

Spec == Init /\ [][Next]_vars

(***************************************************************************)
(* The operations that hand the active rom set to the bus, and the         *)
(* lookups.  The bus is the record of the calls made on it.                *)
(***************************************************************************)
\* Faulty variant: the region is not marked read-only.
copy_from_writable(src_vec, location, cycle_cost, read_only) ==
  [op |-> "copy_from", bytes |-> src_vec, address |-> location,
   cycle_cost |-> cycle_cost, read_only |-> FALSE]

\* bus.copy_from(rom_image_vec, rom_desc.address, rom_desc.cycle_cost, true)
copy_from(src_vec, location, cycle_cost, read_only) ==
  [op |-> "copy_from", bytes |-> src_vec, address |-> location,
   cycle_cost |-> cycle_cost, read_only |-> read_only]

\* bus.patch_from(&patch.bytes, patch.address)
patch_from(src_vec, location) ==
  [op |-> "patch_from", bytes |-> src_vec, address |-> location]

\* The loop of copy_into_memory over the roms of the active set; it panics
\* at the first rom without an image (unwrap on None), after the copies
\* made so far.
RECURSIVE CopyRoms(_, _, _, _, _)
CopyRoms(roms, defs, images, b, i) ==
  IF i > Len(roms) THEN [bus |-> b, panicked |-> FALSE]
  ELSE IF roms[i] \notin DOMAIN images THEN [bus |-> b, panicked |-> TRUE]
  ELSE CopyRoms(roms, defs, images,
                Append(b, copy_from(images[roms[i]], defs[roms[i]].address,
                                    defs[roms[i]].cycle_cost, TRUE)),
                i + 1)

\* Faulty variant: the loop stops before the last patch of the rom.
RECURSIVE PatchRomButLast(_, _, _)
PatchRomButLast(patches, b, i) ==
  IF i >= Len(patches) THEN b
  ELSE PatchRomButLast(patches,
                       Append(b, patch_from(patches[i].bytes, patches[i].address)),
                       i + 1)

\* The loop over the patches of one rom.
RECURSIVE PatchRom(_, _, _)
PatchRom(patches, b, i) ==
  IF i > Len(patches) THEN b
  ELSE PatchRom(patches, Append(b, patch_from(patches[i].bytes, patches[i].address)),
                i + 1)

\* The loop of install_patches over the roms of the active set.
RECURSIVE PatchRoms(_, _, _, _)
PatchRoms(roms, defs, b, i) ==
  IF i > Len(roms) THEN b
  ELSE PatchRoms(roms, defs,
                 IF get_romdesc(defs, roms[i]) = None THEN b
                 ELSE PatchRom(defs[roms[i]].patches, b, 1),
                 i + 1)

get_checkpoint(addr) ==
  IF addr \in DOMAIN checkpoints_active
    THEN Some(checkpoints_active[addr]) ELSE None

has_basic == have_basic

CopyIntoMemory ==
  /\ bus_calls < MaxBusCalls
  /\ bus_calls' = bus_calls + 1
  /\ UNCHANGED << fs, manager, path_arg, result, calls, peer, mouse, counter >>
  /\ IF Len(rom_sets_complete) = 0
       THEN bus_result' = "false" /\ bus' = bus
     ELSE IF rom_set_active = None
       THEN bus_result' = "panic" /\ bus' = bus
     ELSE LET copied == CopyRoms(rom_set_active[1].roms, rom_defs,
                                 rom_images, bus, 1) IN
          /\ bus' = copied.bus
          /\ bus_result' = IF copied.panicked THEN "panic" ELSE "true"

InstallPatches ==
  /\ bus_calls < MaxBusCalls
  /\ bus_calls' = bus_calls + 1
  /\ UNCHANGED << fs, manager, path_arg, result, calls, peer, mouse, counter >>
  /\ bus_result' = "unit"
  /\ bus' = IF rom_set_active = None THEN bus
            ELSE PatchRoms(rom_set_active[1].roms, rom_defs, bus, 1)

\* The manager is configured first and mapped into the bus afterwards.
NextBus ==
  \/ bus_calls = 0 /\ Next
  \/ CopyIntoMemory
  \/ InstallPatches

SpecBus == Init /\ [][NextBus]_vars

(***************************************************************************)
(* Properties of try_load_from_dir.                                        *)
(***************************************************************************)
Range(seq) == {seq[k] : k \in DOMAIN seq}

\* The last call opened the directory and went on to the scan.
Scanned == calls > 0 /\ result # "DirNotFound"

\* Rom set i has every non-optional rom marked present.
FlagComplete(i) ==
  \A d \in Range(rom_sets[i].roms) : rom_defs[d].optional \/ rom_defs[d].present

\* The rom sets of the manager's machine type that are complete, and the one
\* of highest priority among them, the first declared on equal priority.
Candidates ==
  {i \in DOMAIN rom_sets :
     rom_sets[i].machine_type = machine_type /\ FlagComplete(i)}

Winner ==
  CHOOSE i \in Candidates :
    \A j \in Candidates :
       \/ rom_sets[i].priority > rom_sets[j].priority
       \/ rom_sets[i].priority = rom_sets[j].priority /\ i <= j

\* The active set was cloned from rom set i (its roms filtered).
DerivedFrom(active, i) ==
  /\ active.machine_type = rom_sets[i].machine_type
  /\ active.priority = rom_sets[i].priority
  /\ Range(active.roms) \subseteq Range(rom_sets[i].roms)

IsBasic(d) == rom_defs[d].rom_type = "BASIC"

\* C1: after a successful try_load_from_dir exactly one rom set is active, and
\* it is derived from the complete rom set of the manager's machine type with
\* the highest priority, the earliest declared one on equal priority.
C1_HighestPriorityCompleteSetWins ==
  result = "Ok" =>
    /\ Len(rom_set_active) = 1
    /\ Candidates # {}
    /\ {i \in DOMAIN rom_sets : DerivedFrom(rom_set_active[1], i)} = {Winner}

\* Two rom sets of different priority are complete and the call succeeded.
C1_Witness ==
  /\ result = "Ok"
  /\ \E i, j \in Candidates : rom_sets[i].priority < rom_sets[j].priority

\* The number of clones of rom set i on the list of complete rom sets.
CloneCount(i) ==
  Cardinality({k \in DOMAIN rom_sets_complete :
                 rom_sets_complete[k] = [rom_sets[i] EXCEPT !.is_complete = TRUE]})

\* C2: a call that scans the directory marks a rom set complete and pushes it
\* on rom_sets_complete if and only if the set is of the manager's machine
\* type and each of its non-optional roms is marked present; optional roms
\* and rom sets of other machine types never count.
C2_CompleteIffRequiredPresent ==
  [][ (calls' = calls + 1 /\ result' # "DirNotFound") =>
        \A i \in DOMAIN rom_sets :
           LET complete == /\ rom_sets[i].machine_type = machine_type
                           /\ FlagComplete(i)'
           IN  /\ rom_sets'[i].is_complete <=> complete
               /\ CloneCount(i)' = CloneCount(i) + (IF complete THEN 1 ELSE 0)
    ]_vars

\* After a scan one rom set is complete although an optional rom of it is
\* absent, another of the same machine type is incomplete, and the sets of
\* the other machine type are not complete.
C2_Witness ==
  /\ Scanned
  /\ \E i, j \in DOMAIN rom_sets :
        /\ rom_sets[i].is_complete
        /\ \E d \in Range(rom_sets[i].roms) :
              rom_defs[d].optional /\ ~rom_defs[d].present
        /\ rom_sets[j].machine_type = machine_type
        /\ ~rom_sets[j].is_complete
  /\ \E i \in DOMAIN rom_sets :
        rom_sets[i].machine_type # machine_type /\ ~rom_sets[i].is_complete

\* C3: a call that scans the directory returns RomNotFoundForMachine exactly
\* when no rom set of the machine type is complete, and then there is no
\* active set, no image and no checkpoint.
C3_NoCompleteSetFails ==
  /\ (Scanned /\ Candidates = {}) <=> result = "RomNotFoundForMachine"
  /\ result = "RomNotFoundForMachine" =>
       /\ rom_set_active = None
       /\ DOMAIN rom_images = {}
       /\ DOMAIN checkpoints_active = {}

\* The call failed for want of a complete set although some rom of the
\* machine type was found.
C3_Witness ==
  /\ result = "RomNotFoundForMachine"
  /\ \E d \in DOMAIN rom_defs : rom_defs[d].present

\* The BASIC roms of a rom list.
BasicsOf(roms) == {d \in Range(roms) : IsBasic(d)}

\* C4: the active set holds at most one BASIC rom, and after a successful call
\* it is the BASIC rom of the chosen rom set that is marked present and has
\* the highest priority; every other BASIC rom is dropped, present or not.
C4_VariantCollapse ==
  /\ rom_set_active # None =>
       Cardinality({k \in DOMAIN rom_set_active[1].roms :
                      IsBasic(rom_set_active[1].roms[k])}) <= 1
  /\ result = "Ok" =>
       LET family == {d \in BasicsOf(rom_sets[Winner].roms) : rom_defs[d].present}
       IN  BasicsOf(rom_set_active[1].roms) =
             {d \in family :
                \A e \in family : rom_defs[e].priority <= rom_defs[d].priority}

\* Both BASIC roms are present and the call succeeded with one of them active.
C4_Witness ==
  /\ result = "Ok"
  /\ Cardinality({d \in BasicsOf(rom_sets[Winner].roms) : rom_defs[d].present}) = 2
  /\ Cardinality(BasicsOf(rom_set_active[1].roms)) = 1

\* A BASIC rom that the collapse removes from the rom list.
Collapsed(d, roms) ==
  /\ IsBasic(d)
  /\ \E e \in Range(roms) :
        IsBasic(e) /\ rom_defs[e].present /\ rom_defs[e].priority > rom_defs[d].priority

\* C5: after a successful call the rom list of the active set is the rom list
\* of the chosen rom set, in its order, without the roms not marked present
\* and without the collapsed BASIC roms; it holds every non-optional rom of
\* the chosen set and no rom that is not marked present.
C5_FinalRomList ==
  result = "Ok" =>
    LET chosen == rom_sets[Winner].roms
        final == rom_set_active[1].roms
    IN  /\ final = SelectSeq(chosen, LAMBDA d :
                       rom_defs[d].present /\ ~Collapsed(d, chosen))
        /\ \A d \in Range(chosen) : ~rom_defs[d].optional => d \in Range(final)
        /\ \A d \in Range(final) : rom_defs[d].present

\* The call succeeded, an absent optional rom was dropped and a present
\* optional rom was kept.
C5_Witness ==
  /\ result = "Ok"
  /\ \E d \in Range(rom_sets[Winner].roms) :
        rom_defs[d].optional /\ ~rom_defs[d].present
  /\ \E d \in Range(rom_set_active[1].roms) : rom_defs[d].optional

\* The files of the directory whose bytes have digest d.
FilesOf(d) ==
  {p \in Paths : fs[p].kind = "bytes" /\ md5_compute(fs[p]) = d}

\* Rom set i is complete in the directory as it is: each non-optional rom has
\* a file.
DirComplete(i) ==
  \A d \in Range(rom_sets[i].roms) : rom_defs[d].optional \/ FilesOf(d) # {}

DirCandidates ==
  {i \in DOMAIN rom_sets :
     rom_sets[i].machine_type = machine_type /\ DirComplete(i)}

DirWinner ==
  CHOOSE i \in DirCandidates :
    \A j \in DirCandidates :
       \/ rom_sets[i].priority > rom_sets[j].priority
       \/ rom_sets[i].priority = rom_sets[j].priority /\ i <= j

\* The directory is the one in which the last call resolved, but for the
\* file of rom e, which is gone.
RemovedFileOf(e) ==
  /\ rom_defs[e].present
  /\ fs[rom_defs[e].filename].kind = "absent"
  /\ FilesOf(e) = {}
  /\ \A d \in DOMAIN rom_defs :
        (d # e /\ rom_defs[d].present) => rom_defs[d].filename \in FilesOf(d)

\* C6: when rom set B has won a resolution and the file of one non-optional
\* rom of B is then removed, the next resolution selects the highest priority
\* rom set still complete in the directory, which is not B, or fails with
\* RomNotFoundForMachine when none is.
C6_RequiredEntrySensitivity ==
  [][ ( /\ calls' = calls + 1
        /\ result' # "DirNotFound"
        /\ result = "Ok"
        /\ \E e \in Range(rom_sets[Winner].roms) :
              ~rom_defs[e].optional /\ RemovedFileOf(e) )
      => IF DirCandidates = {}
           THEN result' = "RomNotFoundForMachine"
           ELSE /\ result' = "Ok"
                /\ DirWinner # Winner
                /\ DerivedFrom(rom_set_active'[1], DirWinner)
    ]_vars

\* C7: after a scan a rom is marked present, with the path of such a file, if
\* and only if a readable file of the scanned directory has its digest and
\* the rom is of the manager's machine type.
C7_PresentIffFileInScannedDir ==
  [][ (calls' = calls + 1 /\ result' # "DirNotFound") =>
        \A d \in DOMAIN rom_defs :
           /\ rom_defs'[d].present <=>
                (FilesOf(d) # {} /\ rom_defs[d].machine_type = machine_type)
           /\ rom_defs'[d].present => rom_defs'[d].filename \in FilesOf(d)
    ]_vars

\* C8: a call on a path that cannot be listed returns DirNotFound and leaves
\* the presence flags, the complete sets, the active set, the images and the
\* checkpoints as they were.
C8_DirNotFoundChangesNothing ==
  [][ calls' = calls + 1 =>
        /\ (read_dir(fs, path_arg'[1]) = None) <=> (result' = "DirNotFound")
        /\ result' = "DirNotFound" => UNCHANGED manager
    ]_vars

\* The call failed on the directory after an earlier call had loaded a set.
C8_Witness ==
  /\ result = "DirNotFound"
  /\ rom_set_active # None
  /\ rom_sets_complete # << >>

\* C9: a call succeeds only if every image it loaded has the size the catalog
\* declares for its rom.
C9_SizeGuard ==
  result = "Ok" =>
    \A d \in Range(rom_set_active[1].roms) :
       rom_images[d].len = rom_defs[d].size

\* The rom list the call has to load: the roms of the winning set that are
\* present and not collapsed.
RomsToLoad ==
  SelectSeq(rom_sets[Winner].roms, LAMBDA d :
     rom_defs[d].present /\ ~Collapsed(d, rom_sets[Winner].roms))

\* C10: a call that finds a complete set returns FileNotFound exactly when the
\* file of some rom of the final list cannot be read, and then
\* rom_set_active keeps the value it had before the call.
C10_ReadFailureKeepsActiveSet ==
  [][ (calls' = calls + 1 /\ result' \notin {"DirNotFound", "RomNotFoundForMachine"}) =>
        LET unreadable == \E d \in Range(RomsToLoad') :
                             fs_read(fs, rom_defs'[d].filename) = None
        IN  /\ unreadable <=> (result' = "FileNotFound")
            /\ result' = "FileNotFound" => rom_set_active' = rom_set_active
    ]_vars

\* An image could not be read while an earlier active set was installed.
C10_Witness ==
  /\ result = "FileNotFound"
  /\ rom_set_active # None

(***************************************************************************)
(* Properties of copy_into_memory and install_patches (under SpecBus).     *)
(***************************************************************************)
CopyStep == bus_calls' = bus_calls + 1 /\ bus_result' # "unit"
PatchStep == bus_calls' = bus_calls + 1 /\ bus_result' = "unit"

\* The copies copy_into_memory is to make for the active set.
ExpectedCopies ==
  LET roms == rom_set_active[1].roms IN
  [k \in DOMAIN roms |->
     [op |-> "copy_from", bytes |-> rom_images[roms[k]],
      address |-> rom_defs[roms[k]].address,
      cycle_cost |-> BIOS_READ_CYCLE_COST, read_only |-> TRUE]]

\* C11: with an active set, copy_into_memory makes exactly one copy_from call
\* per rom of the active set, in list order, with the rom's image, its
\* address, cycle cost BIOS_READ_CYCLE_COST and the read-only flag, makes no
\* other bus call and returns true.
C11_CopyIntoMemoryMapsActiveSet ==
  [][ (CopyStep /\ rom_set_active # None) =>
        /\ bus_result' = "true"
        /\ bus' = bus \o ExpectedCopies
    ]_vars

\* copy_into_memory returned true after copying two roms.
C11_Witness ==
  /\ bus_result = "true"
  /\ rom_set_active # None
  /\ Len(rom_set_active[1].roms) = 2
  /\ Len(bus) >= 2
  /\ bus[Len(bus)].op = "copy_from"

\* The patch_from calls install_patches is to make for the roms from the
\* i-th on.
RECURSIVE ExpectedPatches(_, _)
ExpectedPatches(roms, i) ==
  IF i > Len(roms) THEN << >>
  ELSE LET patches == rom_defs[roms[i]].patches IN
       [k \in DOMAIN patches |->
          [op |-> "patch_from", bytes |-> patches[k].bytes,
           address |-> patches[k].address]]
       \o ExpectedPatches(roms, i + 1)

\* C12: install_patches makes, for each rom of the active set in order and
\* each patch of the rom in order, one patch_from call with the patch's bytes
\* and address, and no other bus call; without an active set it makes none.
C12_InstallPatchesWritesActivePatches ==
  [][ PatchStep =>
        bus' = IF rom_set_active = None THEN bus
               ELSE bus \o ExpectedPatches(rom_set_active[1].roms, 1)
    ]_vars

\* install_patches wrote the two patches of the 5150 BIOS v1 for an active
\* set of two roms.
C12_Witness ==
  /\ bus_result = "unit"
  /\ rom_set_active # None
  /\ Len(rom_set_active[1].roms) = 2
  /\ Len(bus) >= 2
  /\ bus[Len(bus)].op = "patch_from"
  /\ bus[Len(bus) - 1].op = "patch_from"

(***************************************************************************)
(* Properties of the checkpoint index and of repeated resolutions.         *)
(***************************************************************************)
\* The addresses that carry a checkpoint in the catalog or in the index.
CheckpointAddrs ==
  UNION {DOMAIN rom_defs[d].checkpoints : d \in DOMAIN rom_defs}
    \cup DOMAIN checkpoints_active

\* The roms of the active set that declare a checkpoint at addr.
DeclaringRoms(addr) ==
  IF rom_set_active = None THEN {}
  ELSE {d \in Range(rom_set_active[1].roms) : addr \in DOMAIN rom_defs[d].checkpoints}

\* C13: after a successful load get_checkpoint(addr) returns a label if and
\* only if a rom of the active set declares a checkpoint at addr, and it is
\* that rom's label.
C13_CheckpointScoping ==
  result = "Ok" =>
    \A addr \in CheckpointAddrs :
       get_checkpoint(addr) =
         IF DeclaringRoms(addr) = {} THEN None
         ELSE Some(rom_defs[CHOOSE d \in DeclaringRoms(addr) : TRUE].checkpoints[addr])

\* C14: at any time the checkpoint index holds the checkpoints of the roms of
\* the current active set and no others.
C14_CheckpointIndexRebuilt ==
  DOMAIN checkpoints_active =
    {addr \in CheckpointAddrs : DeclaringRoms(addr) # {}}

\* C15: a call that returns an error after an earlier successful resolution
\* leaves the active set, the loaded images and the checkpoint index as they
\* were.
C15_FailedReconfigurationKeepsMapping ==
  [][ ( /\ calls' = calls + 1
        /\ result' \in {"DirNotFound", "RomNotFoundForMachine", "FileNotFound"}
        /\ rom_set_active # None )
      => UNCHANGED << rom_set_active, rom_images, checkpoints_active >>
    ]_vars

\* A BASIC rom that the collapse removes when presence is what the directory
\* holds.
DirCollapsed(d, roms) ==
  /\ IsBasic(d)
  /\ \E e \in Range(roms) :
        IsBasic(e) /\ FilesOf(e) # {} /\ rom_defs[e].priority > rom_defs[d].priority

\* The final rom list that the directory as it is determines.
DirRomsToLoad ==
  SelectSeq(rom_sets[DirWinner].roms, LAMBDA d :
     FilesOf(d) # {} /\ ~DirCollapsed(d, rom_sets[DirWinner].roms))

\* C16: the outcome of a resolution is determined by the directory, the
\* catalog and the registry: the rom set and the final rom list are those of
\* the directory as it is, whatever the order of its entries and whatever
\* earlier scans found.
C16_ResolutionDeterminedByDirectory ==
  [][ (calls' = calls + 1 /\ result' # "DirNotFound") =>
        IF DirCandidates = {}
          THEN result' = "RomNotFoundForMachine"
          ELSE /\ result' = "Ok"
               /\ rom_set_active'[1].priority = rom_sets[DirWinner].priority
               /\ rom_set_active'[1].roms = DirRomsToLoad
    ]_vars

\* C18: has_basic() is true if and only if the active set holds a BASIC rom.
C18_HasBasicIffBasicActive ==
  has_basic <=>
    (rom_set_active # None /\ BasicsOf(rom_set_active[1].roms) # {})

\* C19: every field of every rom definition and of every rom set keeps the
\* value RomManager::new gave it.
C19_CatalogAndRegistryNeverModified ==
  rom_defs = NewRomDefs /\ rom_sets = NewRomSets

(***************************************************************************)
(* A registry with a dangling reference.  RomManager::new is a struct      *)
(* literal: it builds rom_sets and rom_defs and checks nothing, so a       *)
(* registry whose set names a digest that is no key of rom_defs is         *)
(* constructed like any other.                                             *)
(***************************************************************************)
UnknownRom == "00000000000000000000000000000000"

\* The built-in registry with UnknownRom added to the roms of set i.
DanglingRomSets(i) ==
  [NewRomSets EXCEPT ![i].roms = Append(@, UnknownRom)]

\* The dangling reference is in a 5150 set or in an XT set.
DanglingRegistries == {DanglingRomSets(1), DanglingRomSets(5)}

InitDangling ==
  /\ fs \in [Paths -> FileStates]
  /\ machine_type \in MachineTypes
  /\ have_basic = FALSE
  /\ rom_sets \in DanglingRegistries
  /\ rom_sets_complete = << >>
  /\ rom_set_active = None
  /\ checkpoints_active = << >>
  /\ rom_defs = NewRomDefs
  /\ rom_images = << >>
  /\ path_arg = None
  /\ result = "none"
  /\ calls = 0
  /\ bus = << >>
  /\ bus_result = "none"
  /\ bus_calls = 0
  /\ peer = new(machine_type)
  /\ MouseNew
  /\ CounterNew

SpecDangling == InitDangling /\ [][Next]_vars

NextRescan ==
  \E path \in DirNames :
    \E order \in (IF read_dir(fs, path) = None THEN {<< >>}
                  ELSE Orders(read_dir(fs, path)[1])) :
      TryLoadFromDir(path, order)

SpecRescan == Init /\ [][NextRescan]_vars

\* C20: a second try_load_from_dir on the unchanged directory leaves the
\* list of complete sets, the active set, the loaded images and the
\* checkpoint index as the first call left them.
C20_RepeatedScanIdempotent ==
  [][ ( /\ calls >= 1
        /\ calls' = calls + 1
        /\ path_arg = Some(RomDir)
        /\ path_arg' = Some(RomDir) )
      => UNCHANGED << rom_sets_complete, rom_set_active, rom_images,
                      checkpoints_active >>
    ]_vars

(***************************************************************************)
(* Properties of the state a manager keeps from one call to the next.      *)
(***************************************************************************)
\* C21: presence is per scan.  In a call that scans the directory, a rom
\* marked present by an earlier scan and without a file in the directory now
\* scanned is not present, and a rom set is pushed on rom_sets_complete only
\* if each of its non-optional roms has a file in that directory.
C21_PresencePerScan ==
  [][ (calls' = calls + 1 /\ result' # "DirNotFound") =>
        /\ \A d \in DOMAIN rom_defs :
              (rom_defs[d].present /\ FilesOf(d) = {}) => ~rom_defs'[d].present
        /\ \A i \in DOMAIN rom_sets :
              CloneCount(i)' > CloneCount(i) => DirComplete(i)
    ]_vars

\* pub enum RomError: four variants, none of which has a field.
RomError ==
  [DirNotFound |-> {}, RomNotFoundForMachine |-> {}, FileNotFound |-> {},
   FileError |-> {}]

\* C22: the error returned when no rom set is complete carries the machine
\* type asked for and the non-optional roms missing from the best incomplete
\* rom set.
C22_NoCompleteSetErrorCarriesDetail ==
  result = "RomNotFoundForMachine" =>
    {"machine_type", "missing"} \subseteq RomError[result]

(***************************************************************************)
(* Properties of the order of the stages (under SpecBus).                  *)
(***************************************************************************)
\* C23: as long as no call of try_load_from_dir has succeeded, there is no
\* active set: copy_into_memory returns false and install_patches returns,
\* neither writes to the bus, and get_checkpoint returns None for every
\* address.
C23_StageOrder ==
  [][ (rom_set_active = None /\ bus_calls' = bus_calls + 1) =>
        /\ bus' = bus
        /\ bus_result' \in {"false", "unit"}
        /\ \A addr \in CheckpointAddrs : get_checkpoint(addr) = None
    ]_vars

\* The active set has been copied into the bus by the first n bus calls.
MappedBefore(n) ==
  \A d \in Range(rom_set_active[1].roms) :
     \E j \in 1..(n - 1) :
        /\ bus[j].op = "copy_from"
        /\ bus[j].address = rom_defs[d].address
        /\ bus[j].bytes = rom_images[d]

\* C24: a patch is written to the bus only after every rom of the active set
\* has been copied into the bus by copy_into_memory.
C24_PatchesAfterPlacement ==
  \A k \in DOMAIN bus : bus[k].op = "patch_from" => MappedBefore(k)

(***************************************************************************)
(* Properties of the built-in tables.                                      *)
(***************************************************************************)
\* C25: every rom listed by a rom set of the registry is a key of the
\* catalog, and no call of try_load_from_dir panics with "Invalid rom
\* reference", whatever the machine type.
C25_BuiltInReferentialIntegrity ==
  /\ \A i \in DOMAIN rom_sets : ~InvalidRomReference(rom_sets[i], rom_defs)
  /\ result # "panic"

\* A call went through the completeness loop and found a rom set of the
\* machine type complete and another one incomplete.
C25_Witness ==
  /\ Scanned
  /\ \E i, j \in DOMAIN rom_sets :
        /\ rom_sets[i].machine_type = machine_type
        /\ rom_sets[j].machine_type = machine_type
        /\ FlagComplete(i)
        /\ ~FlagComplete(j)

(***************************************************************************)
(* Two managers on one directory.  Each is a value of its own: the tables  *)
(* are built by new for every instance, and try_load_from_dir takes        *)
(* &mut self, so a call runs to its end on the manager it was made on.     *)
(* The directory is not changed while the two resolve.                     *)
(***************************************************************************)
InitPair ==
  /\ fs \in [Paths -> FileStates]
  /\ machine_type \in MachineTypes
  /\ have_basic = FALSE
  /\ rom_sets = NewRomSets
  /\ rom_sets_complete = << >>
  /\ rom_set_active = None
  /\ checkpoints_active = << >>
  /\ rom_defs = NewRomDefs
  /\ rom_images = << >>
  /\ path_arg = None
  /\ result = "none"
  /\ calls = 0
  /\ bus = << >>
  /\ bus_result = "none"
  /\ bus_calls = 0
  /\ peer \in {new(mt) : mt \in MachineTypes}
  /\ MouseNew
  /\ CounterNew

\* try_load_from_dir on the second manager.
PeerTryLoadFromDir(path, order) ==
  /\ peer.calls < MaxCalls
  /\ peer' = try_load_from_dir(peer, fs, path, order)
  /\ rom_defs' = OtherCatalog(rom_defs, peer'.rom_defs)
  /\ UNCHANGED << fs, machine_type, have_basic, rom_sets, rom_sets_complete,
                  rom_set_active, checkpoints_active, rom_images, path_arg,
                  result, calls, bus, bus_result, bus_calls, mouse, counter >>

\* The orders in which the entries of path can be listed.
DirOrders(path) ==
  IF read_dir(fs, path) = None THEN {<< >>}
  ELSE Orders(read_dir(fs, path)[1])

NextPair ==
  \/ \E path \in DirNames : \E order \in DirOrders(path) :
       TryLoadFromDir(path, order)
  \/ \E path \in DirNames : \E order \in DirOrders(path) :
       PeerTryLoadFromDir(path, order)

SpecPair == InitPair /\ [][NextPair]_vars

\* The first manager as a value.
Self ==
  [machine_type |-> machine_type, have_basic |-> have_basic,
   rom_sets |-> rom_sets, rom_sets_complete |-> rom_sets_complete,
   rom_set_active |-> rom_set_active,
   checkpoints_active |-> checkpoints_active, rom_defs |-> rom_defs,
   rom_images |-> rom_images, result |-> result, calls |-> calls]

C27_CopyIntoMemoryNeverUnwrapsNone ==
  Len(rom_sets_complete) > 0 =>
    /\ rom_set_active # None
    /\ \A d \in Range(rom_set_active[1].roms) :
          /\ get_romdesc(rom_defs, d) # None
          /\ d \in DOMAIN rom_images

\* C28: the image held for a rom of the active set has the digest that
\* identifies the rom.
C28_LoadedBytesHaveTheDigest ==
  rom_set_active # None =>
    \A d \in Range(rom_set_active[1].roms) :
       d \in DOMAIN rom_images => md5_compute(rom_images[d]) = d

\* C29: after a successful call rom_images holds an image for each rom of
\* the active set and for no other rom.
C29_ImagesAreTheActiveSet ==
  result = "Ok" => DOMAIN rom_images = Range(rom_set_active[1].roms)

(***************************************************************************)
(* Every combination of present files: a directory in which each rom of    *)
(* the catalog has its image file or not, the file named by the digest.    *)
(* No digest occurs twice, so one order of the entries stands for all.     *)
(***************************************************************************)
CatalogPaths == {<< RomDir, d >> : d \in DOMAIN NewRomDefs}

InitTables ==
  /\ fs \in {[p \in CatalogPaths |->
                IF p[2] \in found THEN ImageFile(p[2]) ELSE Absent] :
             found \in SUBSET DOMAIN NewRomDefs}
  /\ machine_type \in MachineTypes
  /\ have_basic = FALSE
  /\ rom_sets = NewRomSets
  /\ rom_sets_complete = << >>
  /\ rom_set_active = None
  /\ checkpoints_active = << >>
  /\ rom_defs = NewRomDefs
  /\ rom_images = << >>
  /\ path_arg = None
  /\ result = "none"
  /\ calls = 0
  /\ bus = << >>
  /\ bus_result = "none"
  /\ bus_calls = 0
  /\ peer = new(machine_type)
  /\ MouseNew
  /\ CounterNew

\* One order of the entries of a directory.
RECURSIVE Listing(_)
Listing(entries) ==
  IF entries = {} THEN << >>
  ELSE LET entry == CHOOSE x \in entries : TRUE
       IN  << entry >> \o Listing(entries \ {entry})

NextTables ==
  \E path \in DirNames :
    TryLoadFromDir(path, IF read_dir(fs, path) = None THEN << >>
                         ELSE Listing(read_dir(fs, path)[1]))

SpecTables == InitTables /\ [][NextTables]_vars

\* C30: the address ranges [address, address + size) that the catalog
\* declares for the roms of an active set are pairwise disjoint.
C30_DisjointAddressRanges ==
  rom_set_active # None =>
    LET roms == rom_set_active[1].roms IN
    \A j, k \in DOMAIN roms :
       j # k =>
         LET a == rom_defs[roms[j]]
             b == rom_defs[roms[k]]
         IN  a.address + a.size <= b.address \/ b.address + b.size <= a.address

\* Three BIOS versions and both BASIC roms were found, and the call has
\* loaded a BIOS and one of the BASIC roms.
C30_Witness ==
  /\ result = "Ok"
  /\ Cardinality({d \in DOMAIN rom_defs : rom_defs[d].present}) = 5
  /\ Len(rom_set_active[1].roms) = 2
  /\ BasicsOf(rom_set_active[1].roms) # {}

\* C31: every rom of the catalog lies within the first megabyte:
\* address + size <= 0x100000 = 1048576.
C31_CatalogFitsAddressSpace ==
  \A d \in DOMAIN rom_defs :
     rom_defs[d].address + rom_defs[d].size <= 1048576

(***************************************************************************)
(* devices::mouse: the Microsoft serial mouse.                             *)
(*                                                                         *)
(* An f64 is kept as a whole number of quarters, which is exact for the    *)
(* deltas of the model (whole numbers) times MOUSE_SCALE (0.25).  The      *)
(* microseconds of run are whole numbers, for which f64 addition is exact. *)
(***************************************************************************)
\* 1.0 in quarters; MOUSE_SCALE is 1 / 4.
MOUSE_SCALE_DENOM == 4
MOUSE_RESET_TIME == 10000
MOUSE_RESET_ACK_BYTE == 77
MOUSE_UPDATE_STARTBIT == 64
MOUSE_UPDATE_LBUTTON == 32
MOUSE_UPDATE_RBUTTON == 16
MOUSE_UPDATE_HO_BITS == 192
MOUSE_UPDATE_LO_BITS == 63

\* Number of Mouse::update calls and of Mouse::run calls.
MaxUpdates == 2
MaxRuns == 5

\* a & b and a | b on u8, bit by bit from bit 0.
RECURSIVE BitAnd(_, _, _)
BitAnd(a, b, n) ==
  IF n = 0 THEN 0
  ELSE (a % 2) * (b % 2) + 2 * BitAnd(a \div 2, b \div 2, n - 1)

RECURSIVE BitOr(_, _, _)
BitOr(a, b, n) ==
  IF n = 0 THEN 0
  ELSE (IF a % 2 = 1 \/ b % 2 = 1 THEN 1 ELSE 0)
         + 2 * BitOr(a \div 2, b \div 2, n - 1)

RECURSIVE Shr(_, _)
Shr(a, n) == IF n = 0 THEN a ELSE Shr(a \div 2, n - 1)

\* delta * MOUSE_SCALE, in quarters.
Scaled(delta) == delta

\* Faulty variant: a movement below one unit is left as it is.
NoMinimumMovement(scaled) == scaled

\* "Adjust to Minimum movement of one unit".
MinimumMovement(scaled) ==
  IF scaled > 0 /\ scaled < MOUSE_SCALE_DENOM THEN MOUSE_SCALE_DENOM
  ELSE IF scaled < 0 /\ scaled > -MOUSE_SCALE_DENOM THEN -MOUSE_SCALE_DENOM
  ELSE scaled

\* Faulty variant: the cast wraps modulo 256 instead of saturating.
as_i8_wrapping(scaled) ==
  LET t == IF scaled >= 0 THEN scaled \div MOUSE_SCALE_DENOM
           ELSE -((-scaled) \div MOUSE_SCALE_DENOM)
  IN  ((t + 128) % 256) - 128

\* scaled as i8: the fraction is dropped (towards zero) and the value
\* saturates at the ends of i8.
as_i8(scaled) ==
  LET t == IF scaled >= 0 THEN scaled \div MOUSE_SCALE_DENOM
           ELSE -((-scaled) \div MOUSE_SCALE_DENOM)
  IN  IF t > 127 THEN 127 ELSE IF t < -128 THEN -128 ELSE t

\* i8 as u8: the same eight bits.
as_u8(i) == (i + 256) % 256

\* The three bytes Mouse::update packs.
MouseUpdate(l_button_pressed, r_button_pressed, delta_x, delta_y) ==
  LET delta_x_i8 == as_i8(MinimumMovement(Scaled(delta_x)))
      delta_y_i8 == as_i8(MinimumMovement(Scaled(delta_y)))
      b0 == MOUSE_UPDATE_STARTBIT
      b1 == IF l_button_pressed THEN BitOr(b0, MOUSE_UPDATE_LBUTTON, 8) ELSE b0
      b2 == IF r_button_pressed THEN BitOr(b1, MOUSE_UPDATE_RBUTTON, 8) ELSE b1
      b3 == BitOr(b2, Shr(BitAnd(as_u8(delta_y_i8), MOUSE_UPDATE_HO_BITS, 8), 4), 8)
      byte1 == BitOr(b3, Shr(BitAnd(as_u8(delta_x_i8), MOUSE_UPDATE_HO_BITS, 8), 6), 8)
      byte2 == BitAnd(as_u8(delta_x_i8), MOUSE_UPDATE_LO_BITS, 8)
      byte3 == BitAnd(as_u8(delta_y_i8), MOUSE_UPDATE_LO_BITS, 8)
  IN  << byte1, byte2, byte3 >>

\* Mouse::update
Update(l_button_pressed, r_button_pressed, delta_x, delta_y) ==
  /\ update_calls < MaxUpdates
  /\ update_calls' = update_calls + 1
  /\ update_arg' = Some([l_button_pressed |-> l_button_pressed,
                         r_button_pressed |-> r_button_pressed,
                         delta_x |-> delta_x, delta_y |-> delta_y])
  /\ updates' = Append(updates, MouseUpdate(l_button_pressed, r_button_pressed,
                                            delta_x, delta_y))
  /\ UNCHANGED << rts, rts_low_timer, dtr, serial_queue, run_log >>
  /\ UNCHANGED << fs, manager, path_arg, result, calls, bus, bus_result,
                  bus_calls, peer, counter >>

\* Faulty variant: the newest update is taken.
pop_back(queue) ==
  IF Len(queue) = 0 THEN [popped |-> None, rest |-> queue]
  ELSE [popped |-> Some(queue[Len(queue)]),
        rest |-> SubSeq(queue, 1, Len(queue) - 1)]

\* VecDeque::pop_front
pop_front(queue) ==
  IF Len(queue) = 0 THEN [popped |-> None, rest |-> queue]
  ELSE [popped |-> Some(Head(queue)), rest |-> Tail(queue)]

\* Faulty variant: the timer goes on from the last low period.
RtsGoneLowKeepsTimer(timer) == timer

\* "RTS has gone low": self.rts_low_timer = 0.0
RtsGoneLow(timer) == 0

\* Mouse::run(serial, us), with serial.get_rts(MOUSE_PORT) = serial_rts.
Run(serial_rts, us) ==
  /\ Len(run_log) < MaxRuns
  /\ run_log' = Append(run_log, [rts |-> serial_rts, us |-> us])
  /\ LET front == pop_front(updates)
         sent == IF front.popped = None THEN serial_queue
                 ELSE serial_queue \o front.popped[1]
     IN  /\ updates' = front.rest
         /\ IF rts /\ ~serial_rts
              THEN /\ rts' = FALSE
                   /\ rts_low_timer' = RtsGoneLow(rts_low_timer)
                   /\ serial_queue' = sent
            ELSE IF ~rts /\ ~serial_rts
              THEN /\ rts_low_timer' = rts_low_timer + us
                   /\ rts' = rts
                   /\ serial_queue' = sent
            ELSE IF serial_rts /\ ~rts
              THEN /\ rts' = TRUE
                   /\ IF rts_low_timer > MOUSE_RESET_TIME
                        THEN /\ rts_low_timer' = 0
                             /\ serial_queue' = Append(sent, MOUSE_RESET_ACK_BYTE)
                        ELSE /\ rts_low_timer' = rts_low_timer
                             /\ serial_queue' = sent
            ELSE /\ rts' = rts
                 /\ rts_low_timer' = rts_low_timer
                 /\ serial_queue' = sent
  /\ UNCHANGED << dtr, update_calls, update_arg >>
  /\ UNCHANGED << fs, manager, path_arg, result, calls, bus, bus_result,
                  bus_calls, peer, counter >>

\* No rom directory and no resolution: the rom manager stays as constructed.
InitDevices ==
  /\ Init
  /\ fs = [p \in Paths |-> Absent]
  /\ machine_type = "IBM_PC_5150"

\* The updates and the runs of the mouse specification: two updates that
\* differ in every byte; RTS low for 5000 or 6000 microseconds, or high.
MouseInputs ==
  { [l |-> TRUE, r |-> FALSE, dx |-> 8, dy |-> 0],
    [l |-> FALSE, r |-> TRUE, dx |-> -300, dy |-> 3] }
RunInputs ==
  { [rts |-> FALSE, us |-> 5000], [rts |-> FALSE, us |-> 6000],
    [rts |-> TRUE, us |-> 5000] }

NextMouse ==
  \/ \E in \in MouseInputs : Update(in.l, in.r, in.dx, in.dy)
  \/ \E in \in RunInputs : Run(in.rts, in.us)

SpecMouse == InitDevices /\ [][NextMouse]_vars

\* The deltas of the encoding specification: around zero, around one unit
\* (4), around the top two bits (256) and around the ends of i8 (508, -512).
EncodeDeltas ==
  { -100000, -600, -516, -513, -512, -511, -257, -256, -255, -5, -4, -3, -1,
    0, 1, 3, 4, 5, 255, 256, 257, 507, 508, 511, 512, 600, 100000 }

\* One update on a new mouse.
NextEncode ==
  \E l, r \in BOOLEAN : \E dx, dy \in EncodeDeltas :
     update_calls = 0 /\ Update(l, r, dx, dy)

SpecEncode == InitDevices /\ [][NextEncode]_vars

(***************************************************************************)
(* Properties of the mouse (under SpecMouse and SpecEncode).               *)
(***************************************************************************)
UpdateStep == update_calls' = update_calls + 1
RunStep == Len(run_log') = Len(run_log) + 1

\* The bytes a step has queued to the serial port.
Queued ==
  SubSeq(serial_queue', Len(serial_queue) + 1, Len(serial_queue'))

\* C32: updates are sent first in, first out.  update puts one update at the
\* back of the queue and sends nothing.  run takes the update at the front,
\* if there is one, and queues its byte1, byte2, byte3 to the serial port in
\* this order, before the reset acknowledge byte if the call sends one; it
\* takes no second update, and without an update it sends at most the
\* acknowledge byte.  Bytes queued earlier stay as they are.
C32_UpdatesSentInOrder ==
  [][ /\ SubSeq(serial_queue', 1, Len(serial_queue)) = serial_queue
      /\ UpdateStep =>
           /\ Len(updates') = Len(updates) + 1
           /\ SubSeq(updates', 1, Len(updates)) = updates
           /\ Queued = << >>
      /\ RunStep =>
           IF updates = << >>
             THEN /\ updates' = << >>
                  /\ Queued \in {<< >>, << MOUSE_RESET_ACK_BYTE >>}
             ELSE /\ updates' = Tail(updates)
                  /\ Queued \in {Head(updates),
                                 Head(updates) \o << MOUSE_RESET_ACK_BYTE >>}
    ]_vars

\* Two different updates have been sent, one after the other, and the
\* acknowledge byte after them, in three calls of run.
C32_Witness ==
  /\ update_calls = 2
  /\ updates = << >>
  /\ Len(serial_queue) = 7
  /\ SubSeq(serial_queue, 1, 3) # SubSeq(serial_queue, 4, 6)
  /\ serial_queue[7] = MOUSE_RESET_ACK_BYTE
  /\ Len(run_log) = 3

\* The RTS level at the end of a log of run calls; a new mouse takes RTS to
\* be low.
PrevRts(log) == IF log = << >> THEN FALSE ELSE log[Len(log)].rts

\* The time for which RTS has been seen low without interruption at the end
\* of a log of run calls: the microseconds of the calls that found RTS low
\* after it was low already.
RECURSIVE LowTime(_)
LowTime(log) ==
  IF log = << >> THEN 0
  ELSE LET last == log[Len(log)]
           before == SubSeq(log, 1, Len(log) - 1)
       IN  IF last.rts \/ PrevRts(before) THEN 0
           ELSE LowTime(before) + last.us

\* C33: run sends the acknowledge byte MOUSE_RESET_ACK_BYTE, as the last
\* byte it queues, exactly when it finds RTS high after RTS has been low
\* for more than MOUSE_RESET_TIME microseconds in the low period that ends;
\* the time of earlier low periods does not count, and no acknowledge byte
\* is sent while RTS stays high or stays low.
C33_ResetAcknowledge ==
  [][ RunStep =>
        LET acked == Len(Queued) \in {1, 4} IN
        /\ acked <=> /\ run_log'[Len(run_log')].rts
                     /\ ~PrevRts(run_log)
                     /\ LowTime(run_log) > MOUSE_RESET_TIME
        /\ acked => Queued[Len(Queued)] = MOUSE_RESET_ACK_BYTE
    ]_vars

\* RTS rose at once, without acknowledge, fell, stayed low for more than
\* MOUSE_RESET_TIME and rose again, and the acknowledge byte was sent.
C33_Witness ==
  /\ Len(run_log) = 5
  /\ run_log[1].rts
  /\ ~run_log[2].rts
  /\ run_log[5].rts
  /\ LowTime(SubSeq(run_log, 1, 4)) > MOUSE_RESET_TIME
  /\ serial_queue = << MOUSE_RESET_ACK_BYTE >>

\* Bit n of a byte.
Bit(byte, n) == Shr(byte, n) % 2

\* The 8-bit two's-complement number of eight bits.
FromTwosComplement(u) == IF u >= 128 THEN u - 256 ELSE u

\* The deltas a receiver reassembles from the three bytes: the top two bits
\* from byte1 (X in bits 1-0, Y in bits 3-2), the low six from byte2, byte3.
DecodedX(bytes) ==
  FromTwosComplement((bytes[1] % 4) * 64 + bytes[2])
DecodedY(bytes) ==
  FromTwosComplement(((bytes[1] \div 4) % 4) * 64 + bytes[3])

\* The delta to be sent for an input delta: a quarter of it, without the
\* fraction, at least one unit for a movement, within -128..127.
Min(a, b) == IF a <= b THEN a ELSE b
Max(a, b) == IF a >= b THEN a ELSE b
ExpectedDelta(delta) ==
  IF delta = 0 THEN 0
  ELSE IF delta > 0 THEN Min(Max(delta \div 4, 1), 127)
  ELSE -Min(Max((-delta) \div 4, 1), 128)

\* The update that the last call of update has queued is still queued.
LastUpdateQueued == update_arg # None /\ updates # << >>

\* C34: in the three bytes of an update, byte1 has bit 6 set, bit 7 clear,
\* the left and right buttons in bits 5 and 4; byte2 and byte3 have bits 7
\* and 6 clear; and the deltas reassembled from the bytes are the scaled
\* deltas saturated to -128..127.
C34_PacketEncoding ==
  LastUpdateQueued =>
    LET arg == update_arg[1]
        bytes == updates[Len(updates)]
    IN  /\ Len(bytes) = 3
        /\ \A k \in 1..3 : bytes[k] \in 0..255
        /\ Bit(bytes[1], 7) = 0
        /\ Bit(bytes[1], 6) = 1
        /\ Bit(bytes[1], 5) = 1 <=> arg.l_button_pressed
        /\ Bit(bytes[1], 4) = 1 <=> arg.r_button_pressed
        /\ bytes[2] < 64
        /\ bytes[3] < 64
        /\ DecodedX(bytes) = ExpectedDelta(arg.delta_x)
        /\ DecodedY(bytes) = ExpectedDelta(arg.delta_y)

\* The left button is down, X saturates at -128 and Y is 64: byte1 is
\* 0b0110_0110, byte2 and byte3 are zero.
C34_Witness ==
  /\ update_arg = Some([l_button_pressed |-> TRUE, r_button_pressed |-> FALSE,
                        delta_x |-> -600, delta_y |-> 257])
  /\ updates = << << 102, 0, 0 >> >>

\* C35: a movement that scales to less than one unit is sent as +1 or -1,
\* with the sign of the movement; no movement is sent as 0; and a movement
\* is never sent as 0 or with the other sign.
C35_MinimumMovement ==
  LastUpdateQueued =>
    LET arg == update_arg[1]
        bytes == updates[Len(updates)]
        Axis(delta, decoded) ==
          /\ delta = 0 => decoded = 0
          /\ (0 < delta /\ delta < MOUSE_SCALE_DENOM) => decoded = 1
          /\ (-MOUSE_SCALE_DENOM < delta /\ delta < 0) => decoded = -1
          /\ delta > 0 => decoded > 0
          /\ delta < 0 => decoded < 0
    IN  /\ Axis(arg.delta_x, DecodedX(bytes))
        /\ Axis(arg.delta_y, DecodedY(bytes))

\* X moved by 1 and Y by -3: the update carries +1 and -1 (byte1 is
\* 0b0100_1100, byte2 is 1, byte3 is 0b11_1111).
C35_Witness ==
  /\ update_arg = Some([l_button_pressed |-> FALSE, r_button_pressed |-> FALSE,
                        delta_x |-> 1, delta_y |-> -3])
  /\ updates = << << 76, 1, 63 >> >>

(***************************************************************************)
(* The wasm32 front end: the frame pacing of the event-loop callback.      *)
(***************************************************************************)
FPS_TARGET == 60
\* (1.0 / FPS_TARGET * 1000000.0) as u128: 16666.66... without the fraction.
MICROS_PER_FRAME == 1000000 \div FPS_TARGET

\* Number of event-loop callbacks.
MaxCallbacks == 4

\* Faulty variant: "if" for "while", at most one frame in a callback.
FrameLoopOnce(accumulated, frames) ==
  IF accumulated > MICROS_PER_FRAME
    THEN [accumulated_us |-> accumulated - MICROS_PER_FRAME,
          frame_count |-> frames + 1]
    ELSE [accumulated_us |-> accumulated, frame_count |-> frames]

\* while accumulated_us > MICROS_PER_FRAME { accumulated_us -= MICROS_PER_FRAME;
\* frame_count += 1; ... one frame is emulated and drawn ... }
RECURSIVE FrameLoop(_, _)
FrameLoop(accumulated, frames) ==
  IF accumulated > MICROS_PER_FRAME
    THEN FrameLoop(accumulated - MICROS_PER_FRAME, frames + 1)
    ELSE [accumulated_us |-> accumulated, frame_count |-> frames]

\* One call of the closure given to event_loop.run, to the end of the frame
\* loop, with last_frame.elapsed().as_micros() = elapsed.
Callback(elapsed) ==
  /\ callbacks < MaxCallbacks
  /\ callbacks' = callbacks + 1
  /\ elapsed_us' = elapsed
  /\ LET ran == FrameLoop(accumulated_us + elapsed, frame_count)
     IN  /\ accumulated_us' = ran.accumulated_us
         /\ frame_count' = ran.frame_count
  /\ UNCHANGED << fs, manager, path_arg, result, calls, bus, bus_result,
                  bus_calls, peer, mouse >>

\* The times between two callbacks: none, less than a frame, a frame to the
\* microsecond, one microsecond more, three frames.
ElapsedTimes == {0, 1, 8333, 16666, 16667, 50000}

NextFrame == \E elapsed \in ElapsedTimes : Callback(elapsed)

SpecFrame == InitDevices /\ [][NextFrame]_vars

\* C36: a callback leaves at most one frame period in accumulated_us, and
\* the frames it emulates are as many as the periods it takes from the
\* elapsed and the accumulated time, each frame one period; accumulated_us
\* never goes below zero.
C36_FramePacing ==
  [][ callbacks' = callbacks + 1 =>
        /\ accumulated_us' <= MICROS_PER_FRAME
        /\ accumulated_us' >= 0
        /\ frame_count' >= frame_count
        /\ accumulated_us + elapsed_us' =
             accumulated_us' + (frame_count' - frame_count) * MICROS_PER_FRAME
    ]_vars

\* A callback found a full period accumulated and emulated no frame; the
\* next one, three periods later, emulated four frames.
C36_Witness ==
  /\ callbacks = 2
  /\ elapsed_us = 50000
  /\ frame_count = 4
  /\ accumulated_us = 2

====
